---- MODULE Spec2Model ----
(***************************************************************************)
(* Budget tool (papa_funcional): dotted item codes, the CSV tables of a    *)
(* project (datos.csv, detalle.csv), the editing handlers that rewrite     *)
(* them and the report generators that read them.                          *)
(*                                                                         *)
(* Strings are TLA+ strings; a character of s is SubSeq(s, i, i).          *)
(* Amounts are integers (pesos, whole quantities).                         *)
(***************************************************************************)
EXTENDS Integers, Sequences, FiniteSets, TLC

VARIABLES
    exists,    \* the project folder presupuestos/<nombre> exists
    datos,     \* text of datos.csv: sequence of rows [Item, cant]
    detalle,   \* text of detalle.csv: sequence of rows [item, Codigo, cantidad]
    inp,       \* arguments handed to the pure helpers (SpecCodes)
    op,        \* the last operation that ran, with its arguments
    out        \* what that operation returned or produced

vars == <<exists, datos, detalle, inp, op, out>>

\* ------------------------------------------------------------------ bounds
MaxItems == 3      \* rows of an item list / of datos.csv

\* ------------------------------------------------------------ characters
Digits == {"0", "1", "2", "3"}

DigitVal(c) == CASE c = "0" -> 0 [] c = "1" -> 1 [] c = "2" -> 2 [] c = "3" -> 3

Ch(s, i) == SubSeq(s, i, i)

Min(a, b) == IF a < b THEN a ELSE b

\* the element of a one-element set: The({e(x) : x \in {v}}) evaluates v once
The(S) == CHOOSE x \in S : TRUE

\* the string is a non-empty run of digits
IsDigits(seg) == Len(seg) > 0 /\ \A i \in 1..Len(seg) : Ch(seg, i) \in Digits

\* int(seg) of a digit string
IntVal(seg) ==
    LET F[i \in 0..Len(seg)] ==
            IF i = 0 THEN 0 ELSE 10 * F[i - 1] + DigitVal(Ch(seg, i))
    IN  F[Len(seg)]

\* str.split("."): always at least one segment; "" splits to <<"">>
split(s) ==
    LET dots == {i \in 1..Len(s) : Ch(s, i) = "."}
        \* position of the n-th dot; 0 and Len(s) + 1 close the ends
        dot(n) == IF n = 0 THEN 0
                  ELSE IF n > Cardinality(dots) THEN Len(s) + 1
                  ELSE CHOOSE i \in dots : Cardinality({j \in dots : j < i}) = n - 1
    IN  [n \in 1..(Cardinality(dots) + 1) |-> SubSeq(s, dot(n - 1) + 1, dot(n) - 1)]

\* ".".join(segs)
join(segs) ==
    LET F[i \in 0..Len(segs)] ==
            IF i = 0 THEN ""
            ELSE IF i = 1 THEN segs[1]
            ELSE F[i - 1] \o "." \o segs[i]
    IN  F[Len(segs)]

\* str.startswith
startswith(s, pref) == Len(pref) <= Len(s) /\ SubSeq(s, 1, Len(pref)) = pref

\* str.count(".")
count_dots(s) == Cardinality({i \in 1..Len(s) : Ch(s, i) = "."})

\* str.lstrip("0")
lstrip0(s) ==
    LET keep == {i \in 1..Len(s) : Ch(s, i) # "0"}
    IN  IF keep = {} THEN ""
        ELSE SubSeq(s, CHOOSE i \in keep : \A j \in keep : i <= j, Len(s))

\* str.strip(" "), as int() does with the blanks around a numeral
strip(s) ==
    LET keep == {i \in 1..Len(s) : Ch(s, i) # " "}
    IN  IF keep = {} THEN ""
        ELSE SubSeq(s, CHOOSE i \in keep : \A j \in keep : i <= j,
                       CHOOSE i \in keep : \A j \in keep : i >= j)

\* int(seg): blanks around the numeral and one leading sign are accepted, then
\* digits must follow; ok is FALSE where Python raises ValueError
py_int(seg) ==
    The({ IF Len(t) > 0 /\ Ch(t, 1) \in {"+", "-"}
          THEN IF IsDigits(SubSeq(t, 2, Len(t)))
               THEN [ok |-> TRUE,
                     val |-> IF Ch(t, 1) = "-" THEN 0 - IntVal(SubSeq(t, 2, Len(t)))
                             ELSE IntVal(SubSeq(t, 2, Len(t)))]
               ELSE [ok |-> FALSE, val |-> 0]
          ELSE IF IsDigits(t) THEN [ok |-> TRUE, val |-> IntVal(t)]
               ELSE [ok |-> FALSE, val |-> 0]
        : t \in {strip(seg)} })

\* ------------------------------------------------------- ordering key
\* mutant: segments compared as they are written, not by integer value
parse_key_lexical(code) ==
    LET segs == split(code)
    IN  [i \in 1..Len(segs) |->
            IF IsDigits(segs[i]) THEN DigitVal(Ch(segs[i], 1)) ELSE 0]

\* crear_detallado._parse_key
_parse_key(code) ==
    LET segs == split(code)
    IN  [i \in 1..Len(segs) |-> IF py_int(segs[i]).ok THEN py_int(segs[i]).val ELSE 0]

\* crear_pdf._parse_key: a second try on seg.lstrip("0") or "0"
_parse_key_pdf(code) ==
    LET segs == split(code)
        retry(seg) == LET t == IF lstrip0(seg) = "" THEN "0" ELSE lstrip0(seg)
                      IN  IF py_int(t).ok THEN py_int(t).val ELSE 0
    IN  [i \in 1..Len(segs) |->
            IF py_int(segs[i]).ok THEN py_int(segs[i]).val ELSE retry(segs[i])]

\* Python's < on tuples of integers
TupleLess(a, b) ==
    \E k \in 0..Min(Len(a), Len(b)) :
        /\ \A i \in 1..k : a[i] = b[i]
        /\ \/ (k = Len(a) /\ k < Len(b))
           \/ (k < Len(a) /\ k < Len(b) /\ a[k + 1] < b[k + 1])

\* sorted(..., key=...) on pairs [c, k]: a stable insertion sort
Insert(x, s) ==
    LET after == {j \in 1..Len(s) : TupleLess(x.k, s[j].k)}
        pos == IF after = {} THEN Len(s) + 1
               ELSE CHOOSE j \in after : \A j2 \in after : j <= j2
    IN  SubSeq(s, 1, pos - 1) \o <<x>> \o SubSeq(s, pos, Len(s))

SortPairs(pairs) ==
    The({ LET F[i \in 0..Len(s)] ==
                  IF i = 0 THEN <<>>
                  ELSE The({Insert(s[i], t) : t \in {F[i - 1]}})
          IN  F[Len(s)]
        : s \in {pairs} })

Keys(ps) == [i \in 1..Len(ps) |-> ps[i].c]

sorted(list) ==
    The({ Keys(ps) : ps \in
            {SortPairs([i \in 1..Len(list) |-> [c |-> list[i], k |-> _parse_key(list[i])]])} })

sorted_pdf(list) ==
    The({ Keys(ps) : ps \in
            {SortPairs([i \in 1..Len(list) |-> [c |-> list[i], k |-> _parse_key_pdf(list[i])]])} })

Range(s) == {s[i] : i \in 1..Len(s)}

\* list(dict.fromkeys(s)): first occurrences, in order
Dedup(list) ==
    The({ LET F[i \in 0..Len(s)] ==
                  IF i = 0 THEN <<>>
                  ELSE The({ IF s[i] \in Range(front) THEN front ELSE Append(front, s[i])
                             : front \in {F[i - 1]} })
          IN  F[Len(s)]
        : s \in {list} })

SelectSeqIdx(s, keep) ==
    LET F[i \in 0..Len(s)] ==
            IF i = 0 THEN <<>>
            ELSE IF i \in keep THEN Append(F[i - 1], s[i]) ELSE F[i - 1]
    IN  F[Len(s)]

\* ------------------------------------------------- parents and children
\* mutant: the first segment of every item is a parent, dotted or not
collect_parents_every_top(items) ==
    sorted(Dedup([i \in 1..Len(items) |-> split(items[i])[1]]))

\* crear_detallado._collect_parents: the parent of a code is its first segment.
\* sorted(set(parents)) leaves codes of equal key in hash order; here they
\* stay in order of first appearance.
_collect_parents(items) ==
    The({ sorted(Dedup([i \in 1..Len(withDot) |-> split(withDot[i])[1]]))
        : withDot \in {SelectSeqIdx(items,
                            {i \in 1..Len(items) : Len(split(items[i])) >= 2})} })

\* crear_pdf._collect_parents: the code without its last segment, and also
\* the first segment, are parents of every code that has a dot
parents_of_pdf(it) ==
    LET segs == split(it)
        top == segs[1]
        a == IF Len(segs) >= 2
             THEN <<join(SubSeq(segs, 1, Len(segs) - 1))>> ELSE <<>>
        b == IF top # it /\ startswith(it, top \o ".") THEN <<top>> ELSE <<>>
    IN  a \o b

_collect_parents_pdf(items) ==
    LET F[i \in 0..Len(items)] ==
            IF i = 0 THEN <<>> ELSE F[i - 1] \o parents_of_pdf(items[i])
    IN  sorted_pdf(Dedup(F[Len(items)]))

\* crear_detallado._children_of_parent: every item under the prefix
_children_of_parent(items, parent) ==
    sorted(SelectSeqIdx(items, {i \in 1..Len(items) : startswith(items[i], parent \o ".")}))

\* mutant: every item under the prefix, whatever its depth
children_by_prefix(items, parent) ==
    sorted_pdf(SelectSeqIdx(items,
        {i \in 1..Len(items) : startswith(items[i], parent \o ".")}))

\* crear_pdf._children_of_parent: one more dot than the parent
_children_of_parent_pdf(items, parent) ==
    sorted_pdf(SelectSeqIdx(items,
        {i \in 1..Len(items) :
            /\ startswith(items[i], parent \o ".")
            /\ count_dots(items[i]) = count_dots(parent) + 1}))

\* --------------------------------------------------- inputs of the helpers
KeyCodes == {"", "1", "2", "10", "01", "02", "1.01", "2.01", "2.02", "abc.3", "-2"}

ListCodes == {"1", "3", "1.01", "1.02", "2.01", "10.01", "1.01.01"}

RECURSIVE SetToSeq(_)
SetToSeq(S) ==
    IF S = {} THEN <<>>
    ELSE The({ <<x>> \o SetToSeq(S \ {x}) : x \in {CHOOSE y \in S : TRUE} })

\* items = sorted(df_datos["Item"].astype(str).tolist(), key=_parse_key)
ItemLists == {sorted(SetToSeq(S)) : S \in {T \in SUBSET ListCodes : Cardinality(T) <= MaxItems}}

NoOp == [name |-> "none"]

InitCodes ==
    /\ exists = FALSE
    /\ datos = <<>>
    /\ detalle = <<>>
    /\ inp \in [items : ItemLists, a : KeyCodes, b : KeyCodes]
    /\ op = NoOp
    /\ out = <<>>

ParseKey ==
    /\ op' = [name |-> "_parse_key"]
    /\ out' = [ka |-> _parse_key(inp.a), kb |-> _parse_key(inp.b),
               kab |-> _parse_key(inp.a \o "." \o inp.b)]
    /\ UNCHANGED <<exists, datos, detalle, inp>>

ParseKeyPdf ==
    /\ op' = [name |-> "_parse_key_pdf"]
    /\ out' = [ka |-> _parse_key_pdf(inp.a), kb |-> _parse_key_pdf(inp.b),
               kab |-> _parse_key_pdf(inp.a \o "." \o inp.b)]
    /\ UNCHANGED <<exists, datos, detalle, inp>>

CollectParents ==
    /\ op' = [name |-> "_collect_parents"]
    /\ out' = _collect_parents(inp.items)
    /\ UNCHANGED <<exists, datos, detalle, inp>>

CollectParentsPdf ==
    /\ op' = [name |-> "_collect_parents_pdf"]
    /\ out' = _collect_parents_pdf(inp.items)
    /\ UNCHANGED <<exists, datos, detalle, inp>>

ChildrenOfParent ==
    /\ op' = [name |-> "_children_of_parent"]
    /\ out' = _children_of_parent(inp.items, inp.a)
    /\ UNCHANGED <<exists, datos, detalle, inp>>

ChildrenOfParentPdf ==
    /\ op' = [name |-> "_children_of_parent_pdf"]
    /\ out' = _children_of_parent_pdf(inp.items, inp.a)
    /\ UNCHANGED <<exists, datos, detalle, inp>>

NextCodes ==
    \/ ParseKey
    \/ ParseKeyPdf
    \/ CollectParents
    \/ CollectParentsPdf
    \/ ChildrenOfParent
    \/ ChildrenOfParentPdf

SpecCodes == InitCodes /\ [][NextCodes]_vars

\* ------------------------------------------------------------ CSV tables
\* Column type inference of pd.read_csv (no dtype given): all cells integers
\* -> int64, all cells integers or decimals -> float64, otherwise the cells
\* stay strings.
rstrip0(s) ==
    LET keep == {i \in 1..Len(s) : Ch(s, i) # "0"}
    IN  IF keep = {} THEN ""
        ELSE SubSeq(s, 1, CHOOSE i \in keep : \A j \in keep : j <= i)

IsIntStr(s) == IsDigits(s)

IsFloatStr(s) ==
    /\ count_dots(s) = 1
    /\ Len(s) >= 2
    /\ \A i \in 1..Len(s) : Ch(s, i) \in Digits \cup {"."}

infer_dtype(col) ==
    IF Len(col) = 0 THEN "object"
    ELSE IF \A i \in 1..Len(col) : IsIntStr(col[i]) THEN "int64"
    ELSE IF \A i \in 1..Len(col) : IsIntStr(col[i]) \/ IsFloatStr(col[i]) THEN "float64"
    ELSE "object"

\* str() / to_csv of an int64 cell and of a float64 cell
repr_int(s) == IF lstrip0(s) = "" THEN "0" ELSE lstrip0(s)

repr_float(s) ==
    LET segs == split(s)
        frac == IF Len(segs) = 1 \/ rstrip0(segs[2]) = "" THEN "0" ELSE rstrip0(segs[2])
    IN  repr_int(segs[1]) \o "." \o frac

\* a loaded cell: t says whether pandas holds a number or a string, v is what
\* astype(str) and to_csv make of it
StrCell(s) == [t |-> "str", v |-> s]

read_cell(s, dtype) ==
    IF dtype = "int64" THEN [t |-> "num", v |-> repr_int(s)]
    ELSE IF dtype = "float64" THEN [t |-> "num", v |-> repr_float(s)]
    ELSE StrCell(s)

read_csv_col(col) ==
    The({ [i \in 1..Len(col) |-> read_cell(col[i], dtype)] : dtype \in {infer_dtype(col)} })

ItemCol(rows) == [i \in 1..Len(rows) |-> rows[i].Item]

DetItemCol(rows) == [i \in 1..Len(rows) |-> rows[i].item]

SumSeq(s) ==
    LET F[i \in 0..Len(s)] == IF i = 0 THEN 0 ELSE F[i - 1] + s[i]
    IN  F[Len(s)]

\* ------------------------------------------------------------ catalog
\* construction_budget_data.csv: Codigo -> Pres, Categoria.  "W" is a code
\* that detail rows still carry after modify_item deleted it from the catalog.
Maestro ==
    [X |-> [Pres |-> 1000, Categoria |-> "ARIDOS"],
     Y |-> [Pres |-> 100, Categoria |-> "JORNALES"]]

CatCodes == DOMAIN Maestro

DetCodes == CatCodes \cup {"W"}

\* np.nan, as left by the left merge for a code the catalog does not have
NaN == -1

\* ------------------------------------------------ unit price per item
\* cantidad * Pres of a detail row after the left merge and fillna(0)
subtotal_linea(r) ==
    IF r.Codigo \in CatCodes THEN r.cantidad * Maestro[r.Codigo].Pres ELSE 0

\* crear_detallado / crear_pdf._compute_precio_unitario_por_item: detalle.csv is
\* read without dtype, merged (left) with the catalog, Pres of an unmatched
\* code filled with 0, and cantidad * Pres summed per item
_compute_precio_unitario_por_item(det) ==
    The({ [k \in {items[i].v : i \in 1..Len(det)} |->
              SumSeq(SelectSeqIdx([i \in 1..Len(det) |-> subtotal_linea(det[i])],
                                  {i \in 1..Len(det) : items[i].v = k}))]
        : items \in {read_csv_col(DetItemCol(det))} })

\* precios_item.get(str(child), 0.0)
dict_get(d, k) == IF k \in DOMAIN d THEN d[k] ELSE 0

\* monedas.get_moneda_value: ValorCLP of the currency, 1 when it is not listed
\* USD stands for a currency whose ValorCLP was left at 0
Monedas == [CLP |-> 1, UF |-> 2, USD |-> 0]

get_moneda_value(codigo) == IF codigo \in DOMAIN Monedas THEN Monedas[codigo] ELSE 1

\* monedas.convert_clp_to: 0.0 for a rate of 0, else monto_clp / valor
convert_clp_to(monto_clp, moneda_destino) ==
    The({ IF valor = 0 THEN 0 ELSE monto_clp \div valor
        : valor \in {get_moneda_value(moneda_destino)} })

RowOf(rows, code) == rows[CHOOSE i \in 1..Len(rows) : rows[i].Item = code]

Flatten(ss) ==
    LET F[i \in 0..Len(ss)] == IF i = 0 THEN <<>> ELSE F[i - 1] \o ss[i]
    IN  F[Len(ss)]

\* datos_csv.exists(), detalle_csv.exists() in the project folder
datos_csv_exists == inp.datos_csv

detalle_csv_exists == inp.detalle_csv

\* df_datos_idx.loc[child] is a DataFrame, not a row, when the index holds the
\* label more than once; "item_row.get(...) or ..." then asks a Series for its
\* truth value, which raises ValueError
loc_is_frame(index, child) ==
    Cardinality({i \in 1..Len(index) : index[i] = child}) > 1

\* what a rollup report shows: the parents, the child rows, the grand total
Report(parents, sections) ==
    The({ [error |-> "", parents |-> parents, rows |-> rows,
           total_presupuesto |-> SumSeq([i \in 1..Len(rows) |-> rows[i].total])]
        : rows \in {Flatten(sections)} })

\* ------------------------------------------------ detailed Excel
\* one child line of the detailed Excel
detallado_row(parent, child, precios_item, factor_conversion) ==
    The({ [parent |-> parent, item |-> child, cant |-> RowOf(datos, child).cant,
           punit |-> punit, total |-> punit * RowOf(datos, child).cant]
        : punit \in {IF factor_conversion > 0
                     THEN dict_get(precios_item, child) \div factor_conversion
                     ELSE dict_get(precios_item, child)} })

detallado_section(items, parent, precios_item, factor_conversion) ==
    The({ [i \in 1..Len(childs) |->
              detallado_row(parent, childs[i], precios_item, factor_conversion)]
        : childs \in {_children_of_parent(items, parent)} })

\* crear_detallado.generar_excel_detallado: datos.csv read with Item as str
generar_excel_detallado ==
    IF ~datos_csv_exists \/ ~detalle_csv_exists THEN [error |-> "FileNotFoundError"]
    ELSE The({
        The({ IF \E p \in 1..Len(parents) :
                    \E child \in Range(_children_of_parent(items, parents[p])) :
                        loc_is_frame(ItemCol(datos), child)
              THEN [error |-> "ValueError"]
              ELSE Report(parents,
                     [p \in 1..Len(parents) |->
                         detallado_section(items, parents[p], precios_item,
                                           get_moneda_value(inp.moneda))])
            : parents \in {_collect_parents(items)} })
        : items \in {sorted(ItemCol(datos))},
          precios_item \in {_compute_precio_unitario_por_item(detalle)} })

\* ------------------------------------------------ PDF
pdf_row(parent, child, precios_item) ==
    [parent |-> parent, item |-> child, cant |-> RowOf(datos, child).cant,
     punit |-> dict_get(precios_item, child),
     total |-> dict_get(precios_item, child) * RowOf(datos, child).cant]

\* a child is listed only if its code string is found in the index built from
\* the Item column, which holds numbers when the column was inferred numeric
pdf_section(items, parent, precios_item, cells) ==
    The({ [i \in 1..Len(found) |-> pdf_row(parent, found[i], precios_item)]
        : found \in {The({ SelectSeqIdx(childs,
                              {i \in 1..Len(childs) : StrCell(childs[i]) \in Range(cells)})
                         : childs \in {_children_of_parent_pdf(items, parent)} })} })

\* crear_pdf.generar_pdf_presupuesto: datos.csv read without dtype
generar_pdf_presupuesto ==
    IF ~datos_csv_exists \/ ~detalle_csv_exists THEN [error |-> "FileNotFoundError"]
    ELSE The({
        The({
            The({ IF \E p \in 1..Len(parents) :
                        \E child \in Range(_children_of_parent_pdf(items, parents[p])) :
                            loc_is_frame(cells, StrCell(child))
                  THEN [error |-> "ValueError"]
                  ELSE Report(parents,
                         [p \in 1..Len(parents) |->
                             pdf_section(items, parents[p], precios_item, cells)])
                : parents \in {_collect_parents_pdf(items)} })
            : items \in {sorted_pdf([i \in 1..Len(cells) |-> cells[i].v])} })
        : cells \in {read_csv_col(ItemCol(datos))},
          precios_item \in {_compute_precio_unitario_por_item(detalle)} })

\* ------------------------------------------------ APU Excel
\* Python's order on str, through the code points of the characters in use
CharTable == " .0123456789ABCDEFGHIJKLMNOPQRSTUVWXYZabcdefghijklmnopqrstuvwxyz"

CharOrd(c) == CHOOSE i \in 1..Len(CharTable) : Ch(CharTable, i) = c

StrKey(s) == [i \in 1..Len(s) |-> CharOrd(Ch(s, i))]

TYPE_ORDER ==
    <<"MATERIALES", "EQUIPOS", "MAQUINARIAS", "HERRAMIENTAS", "MANO DE OBRA", "SERVICIOS">>

\* categorias.csv, columns Categoria and Tipo
TipoMapping == [ARIDOS |-> "MATERIALES", JORNALES |-> "MANO DE OBRA"]

\* Trans_excel._tipo_from_row; categoria is "nan" for an unmatched code
_tipo_from_row(codigo, categoria) ==
    IF categoria \in DOMAIN TipoMapping THEN TipoMapping[categoria]
    ELSE IF categoria \in Range(TYPE_ORDER) THEN categoria
    ELSE "MATERIALES"

\* float arithmetic with nan
FMul(a, b) == IF a = NaN \/ b = NaN THEN NaN ELSE a * b

FAdd(a, b) == IF a = NaN \/ b = NaN THEN NaN ELSE a + b

FSum(s) ==
    LET F[i \in 0..Len(s)] ==
            IF i = 0 THEN 0 ELSE The({FAdd(acc, s[i]) : acc \in {F[i - 1]}})
    IN  F[Len(s)]

\* Trans_excel._write_tipo_block: rows by Codigo, total = cant * unit with
\* unit = float(Pres or 0), which is nan for a nan Pres; returns the subtotal
_write_tipo_block(det_tipo, tipo_name) ==
    The({ [tipo |-> tipo_name,
           lines |-> [i \in 1..Len(ps) |->
                        [Codigo |-> ps[i].c.Codigo, cant |-> ps[i].c.cantidad,
                         unit |-> ps[i].c.Pres,
                         total |-> FMul(ps[i].c.cantidad, ps[i].c.Pres)]],
           subtotal |-> FSum([i \in 1..Len(ps) |-> FMul(ps[i].c.cantidad, ps[i].c.Pres)])]
        : ps \in {SortPairs([i \in 1..Len(det_tipo) |->
                             [c |-> det_tipo[i], k |-> StrKey(det_tipo[i].Codigo)]])} })

\* the detail row after the left merge with the catalog and the Tipo column
apu_merged(r) ==
    [Codigo |-> r.Codigo, cantidad |-> r.cantidad,
     Pres |-> IF r.Codigo \in CatCodes THEN Maestro[r.Codigo].Pres ELSE NaN,
     Tipo |-> _tipo_from_row(r.Codigo,
                 IF r.Codigo \in CatCodes THEN Maestro[r.Codigo].Categoria ELSE "nan")]

\* the types present, TYPE_ORDER first and then the others by name
apu_tipos(presentes) ==
    SelectSeqIdx(TYPE_ORDER, {t \in 1..Len(TYPE_ORDER) : TYPE_ORDER[t] \in presentes})
    \o The({ Keys(SortPairs([t \in 1..Len(otros) |-> [c |-> otros[t], k |-> StrKey(otros[t])]]))
           : otros \in {SetToSeq(presentes \ Range(TYPE_ORDER))} })

\* precio unitario: the subtotals that are > 0, added up
apu_partida(item, cant, blocks) ==
    The({ [Item |-> item, blocks |-> blocks, precio_unitario |-> precio_unitario,
           total_partida |-> precio_unitario * cant]
        : precio_unitario \in
            {SumSeq(SelectSeqIdx([t \in 1..Len(blocks) |-> blocks[t].subtotal],
                                 {t \in 1..Len(blocks) : blocks[t].subtotal > 0}))} })

apu_blocks(det_full) ==
    The({ [t \in 1..Len(tipos) |->
              _write_tipo_block(
                  SelectSeqIdx(det_full,
                               {j \in 1..Len(det_full) : det_full[j].Tipo = tipos[t]}),
                  tipos[t])]
        : tipos \in {apu_tipos({det_full[j].Tipo : j \in 1..Len(det_full)})} })

\* Trans_excel.generar_excel: datos.csv and detalle.csv read without dtype
generar_excel ==
    IF ~datos_csv_exists \/ ~detalle_csv_exists THEN [error |-> "FileNotFoundError"]
    ELSE The({
        [error |-> "",
         partidas |-> [i \in 1..Len(datos) |->
            The({ apu_partida(dcells[i].v, datos[i].cant, blocks)
                : blocks \in {The({ apu_blocks(det_full)
                    : det_full \in {SelectSeqIdx(merged,
                          {j \in 1..Len(detalle) : tcells[j].v = dcells[i].v})} })} })]]
        : dcells \in {read_csv_col(ItemCol(datos))},
          tcells \in {read_csv_col(DetItemCol(detalle))},
          merged \in {[j \in 1..Len(detalle) |-> apu_merged(detalle[j])]} })

\* ------------------------------------------------ projects on disk
MaxCantNum == 2    \* largest "cantidad numero" of an item

\* the item codes of the projects on disk: the code presupuesto_nuevo gives
\* the first item, a top-level code, codes of two and three segments
Projects ==
    { {"01.01"}, {"3"}, {"1.01.01"},
      {"1.01", "3"}, {"1.01", "1.01.01"},
      {"1.01", "1.02", "2.01"}, {"01.01", "1.02", "1.01.01"} }

DRow(cod, q) == [Codigo |-> cod, cantidad |-> q]

\* detail rows of one item
DetPatterns ==
    { <<>>,
      <<DRow("X", 1)>>, <<DRow("X", 2)>>, <<DRow("X", 3)>>,
      <<DRow("Y", 3)>>, <<DRow("Y", 3), DRow("Y", 2)>>,
      <<DRow("X", 1), DRow("W", 1)>>, <<DRow("W", 2)>> }

DetalleOf(codes, pat) ==
    Flatten([i \in 1..Len(codes) |->
        [j \in 1..Len(pat[codes[i]]) |->
            [item |-> codes[i], Codigo |-> pat[codes[i]][j].Codigo,
             cantidad |-> pat[codes[i]][j].cantidad]]])

\* the currency asked for: listed, listed with rate 0, not listed
MonedaCodes == {"CLP", "UF", "USD", "EUR"}

\* presupuesto_nuevo.DEFAULT_ITEM
DEFAULT_ITEM == "01.01"

\* item columns in which a code stands twice, as the editing of a project
\* can leave them (a code rewritten as 1.1 next to an item 1.1)
RepeatedCodes == { <<"1.1", "1.1">>, <<"1.1", "1.1", "1.01.01">> }

\* the project's currency: any listed or unlisted code for a project of one
\* item, a currency with a rate for the larger ones
ProjectMonedas(codes) == IF Len(codes) = 1 THEN MonedaCodes ELSE {"CLP", "UF"}

InitReport ==
    /\ exists \in BOOLEAN
    /\ op = NoOp
    /\ out = <<>>
    /\ IF exists
       THEN \/ \E S \in Projects :
               \E c \in 1..MaxCantNum :
               \E pat \in [S -> DetPatterns] :
               \E codes \in {sorted(SetToSeq(S))} :
                   /\ datos = [i \in 1..Len(codes) |-> [Item |-> codes[i], cant |-> c]]
                   /\ detalle = DetalleOf(codes, pat)
                   /\ inp \in [moneda : ProjectMonedas(codes),
                                datos_csv : {TRUE}, detalle_csv : {TRUE}]
            \/ \E codes \in RepeatedCodes :
               \E pat \in [Range(codes) -> DetPatterns] :
                   /\ datos = [i \in 1..Len(codes) |-> [Item |-> codes[i], cant |-> 1]]
                   /\ detalle = DetalleOf(Dedup(codes), pat)
                   /\ inp = [moneda |-> "CLP", datos_csv |-> TRUE, detalle_csv |-> TRUE]
            \/ /\ datos \in {<<>>, <<[Item |-> DEFAULT_ITEM, cant |-> 1]>>}
               /\ detalle = <<>>
               /\ inp = [moneda |-> "CLP", datos_csv |-> datos # <<>>,
                         detalle_csv |-> datos = <<>>]
       ELSE /\ datos = <<>>
            /\ detalle = <<>>
            /\ inp = [moneda |-> "CLP", datos_csv |-> FALSE, detalle_csv |-> FALSE]

GenerarExcel ==
    /\ op' = [name |-> "generar_excel"]
    /\ out' = generar_excel
    /\ UNCHANGED <<exists, datos, detalle, inp>>

GenerarExcelDetallado ==
    /\ op' = [name |-> "generar_excel_detallado"]
    /\ out' = generar_excel_detallado
    /\ UNCHANGED <<exists, datos, detalle, inp>>

GenerarPdfPresupuesto ==
    /\ op' = [name |-> "generar_pdf_presupuesto"]
    /\ out' = generar_pdf_presupuesto
    /\ UNCHANGED <<exists, datos, detalle, inp>>

NextReport ==
    \/ GenerarExcel
    \/ GenerarExcelDetallado
    \/ GenerarPdfPresupuesto

SpecReport == InitReport /\ [][NextReport]_vars

\* ------------------------------------------------ currency conversion
MaxMonto == 30    \* the amounts converted are 0, 2, ..., 2 * MaxMonto

\* amounts in CLP; even, so that the division by every listed rate is exact
Montos == {2 * m : m \in 0..MaxMonto}

InitMoney ==
    /\ exists = FALSE
    /\ datos = <<>>
    /\ detalle = <<>>
    /\ inp \in [monto_clp : Montos, moneda_destino : MonedaCodes]
    /\ op = NoOp
    /\ out = 0

ConvertClpTo ==
    /\ op' = [name |-> "convert_clp_to"]
    /\ out' = convert_clp_to(inp.monto_clp, inp.moneda_destino)
    /\ UNCHANGED <<exists, datos, detalle, inp>>

GetMonedaValue ==
    /\ op' = [name |-> "get_moneda_value"]
    /\ out' = get_moneda_value(inp.moneda_destino)
    /\ UNCHANGED <<exists, datos, detalle, inp>>

NextMoney ==
    \/ ConvertClpTo
    \/ GetMonedaValue

SpecMoney == InitMoney /\ [][NextMoney]_vars

\* ------------------------------------------------ frames in memory
\* a DataFrame column cell is [t, v] (see StrCell); a datos frame row is
\* [Item : cell, cant], a detalle frame row is [item : cell, Codigo, cantidad]
MaxQty == 1         \* largest quantity typed for a catalog code
MaxCantidad == 2    \* largest cantidad a consolidated detail row may reach

IsNum(cell) == cell.t = "num"

\* the column has a numeric dtype: read_csv inferred int64 or float64
numeric_dtype(cells) == Len(cells) > 0 /\ \A i \in 1..Len(cells) : IsNum(cells[i])

\* presupuesto_utils.load_presupuesto: both tables through plain read_csv
load_presupuesto ==
    The({ [datos |-> [i \in 1..Len(datos) |-> [Item |-> dc[i], cant |-> datos[i].cant]],
           detalle |-> [j \in 1..Len(detalle) |->
                          [item |-> tc[j], Codigo |-> detalle[j].Codigo,
                           cantidad |-> detalle[j].cantidad]]]
        : dc \in {read_csv_col(ItemCol(datos))},
          tc \in {read_csv_col(DetItemCol(detalle))} })

\* DataFrame.to_csv of the two tables, as save_presupuesto writes them
datos_to_csv(datos_df) ==
    [i \in 1..Len(datos_df) |-> [Item |-> datos_df[i].Item.v, cant |-> datos_df[i].cant]]

detalle_to_csv(detalle_df) ==
    [j \in 1..Len(detalle_df) |->
        [item |-> detalle_df[j].item.v, Codigo |-> detalle_df[j].Codigo,
         cantidad |-> detalle_df[j].cantidad]]

\* re.findall(r"\d+", s): the maximal runs of digits, in order
digit_groups(s) ==
    LET isd(i) == i >= 1 /\ i <= Len(s) /\ Ch(s, i) \in Digits
        starts == {i \in 1..Len(s) : isd(i) /\ ~isd(i - 1)}
        start(n) == CHOOSE i \in starts : Cardinality({j \in starts : j < i}) = n - 1
        stop(i) == CHOOSE e \in i..Len(s) : (\A j \in i..e : isd(j)) /\ ~isd(e + 1)
    IN  [n \in 1..Cardinality(starts) |-> SubSeq(s, start(n), stop(start(n)))]

zfill(s, width) ==
    LET F[n \in 0..width] == IF n = 0 THEN s ELSE "0" \o F[n - 1]
    IN  IF Len(s) >= width THEN s ELSE F[width - Len(s)]

\* modificar_presupuesto._norm_item_code with width 6
_norm_item_code(code) ==
    The({ IF Len(parts) = 0 THEN code
          ELSE join([n \in 1..Len(parts) |-> zfill(parts[n], 6)])
        : parts \in {digit_groups(code)} })

\* modificar_presupuesto._sort_datos_by_item: stable sort on the normalised code
_sort_datos_by_item(datos_df) ==
    Keys(SortPairs([i \in 1..Len(datos_df) |->
            [c |-> datos_df[i], k |-> StrKey(_norm_item_code(datos_df[i].Item.v))]]))

\* modificar_presupuesto._sort_detalle_by_item: by normalised item, then Codigo
_sort_detalle_by_item(detalle_df) ==
    Keys(SortPairs([j \in 1..Len(detalle_df) |->
            [c |-> detalle_df[j],
             k |-> StrKey(_norm_item_code(detalle_df[j].item.v)) \o <<0>>
                   \o StrKey(detalle_df[j].Codigo)]]))

\* the order groupby gives its keys: numbers by value (the fraction compared
\* on six digits) before strings by text
zpad_right(s, width) ==
    LET F[n \in 0..width] == IF n = 0 THEN s ELSE F[n - 1] \o "0"
    IN  IF Len(s) >= width THEN s ELSE F[width - Len(s)]

GroupKey(cell, codigo) ==
    (IF IsNum(cell)
     THEN The({ <<0, IntVal(segs[1]),
                  IF Len(segs) = 1 THEN 0 ELSE IntVal(zpad_right(segs[2], 6))>>
              : segs \in {split(cell.v)} })
     ELSE <<1>> \o StrKey(cell.v))
    \o <<0>> \o StrKey(codigo)

\* detalle.groupby(["item", "Codigo"], as_index=False)["cantidad"].sum():
\* one row per distinct (item cell, Codigo), cantidad added up, keys in order
groupby_sum(detalle_df) ==
    The({ Keys(SortPairs(
            [n \in 1..Len(firsts) |->
                [c |-> [item |-> firsts[n].item, Codigo |-> firsts[n].Codigo,
                        cantidad |-> SumSeq([j \in 1..Len(detalle_df) |->
                            IF detalle_df[j].item = firsts[n].item
                               /\ detalle_df[j].Codigo = firsts[n].Codigo
                            THEN detalle_df[j].cantidad ELSE 0])],
                 k |-> GroupKey(firsts[n].item, firsts[n].Codigo)]]))
        : firsts \in {Dedup([j \in 1..Len(detalle_df) |->
                        [item |-> detalle_df[j].item, Codigo |-> detalle_df[j].Codigo]])} })

\* modificar_presupuesto._upsert_item: the first row whose code reads as
\* item_code is overwritten, else a row is appended
_upsert_item(datos_df, item_code, cant_num) ==
    The({ IF hits # {}
          THEN [i \in 1..Len(datos_df) |->
                  IF i = CHOOSE h \in hits : \A g \in hits : h <= g
                  THEN [Item |-> StrCell(item_code), cant |-> cant_num]
                  ELSE datos_df[i]]
          ELSE Append(datos_df, [Item |-> StrCell(item_code), cant |-> cant_num])
        : hits \in {{i \in 1..Len(datos_df) : datos_df[i].Item.v = item_code}} })

\* modificar_presupuesto._rename_item_and_consolidate
_rename_item_and_consolidate(datos_df, detalle_df, old_item, new_item, cant_num) ==
    The({ [datos |-> _sort_datos_by_item(
                        IF new_item # old_item
                        THEN SelectSeqIdx(up, {i \in 1..Len(up) : up[i].Item.v # old_item})
                        ELSE up),
           detalle |-> _sort_detalle_by_item(
                        IF new_item # old_item /\ Len(detalle_df) > 0
                        THEN groupby_sum([j \in 1..Len(detalle_df) |->
                                IF detalle_df[j].item.v = old_item
                                THEN [detalle_df[j] EXCEPT !.item = StrCell(new_item)]
                                ELSE detalle_df[j]])
                        ELSE detalle_df)]
        : up \in {_upsert_item(datos_df, new_item, cant_num)} })

\* modificar_presupuesto._delete_item
_delete_item(datos_df, detalle_df, item_code) ==
    [datos |-> _sort_datos_by_item(
                  SelectSeqIdx(datos_df,
                      {i \in 1..Len(datos_df) : datos_df[i].Item.v # item_code})),
     detalle |-> _sort_detalle_by_item(groupby_sum(
                  SelectSeqIdx(detalle_df,
                      {j \in 1..Len(detalle_df) : detalle_df[j].item.v # item_code})))]

\* the rows of the other items and then the new rows of this item, consolidated
replace_detail(detalle_df, item, new_det) ==
    groupby_sum(SelectSeqIdx(detalle_df,
                    {j \in 1..Len(detalle_df) : detalle_df[j].item.v # item})
                \o [n \in 1..Len(new_det) |->
                      [item |-> StrCell(item), Codigo |-> new_det[n].Codigo,
                       cantidad |-> new_det[n].cantidad]])

\* a str is assigned into cells of a column that has a numeric dtype: pandas
\* either turns the column into object or raises, depending on its version
incompatible_setitem(cells, hits) == numeric_dtype(cells) /\ hits # {}

\* ------------------------------------------------ editing a project
\* the codes typed for a new or renamed item
ItemInputs == {"1.1", "1.10", "1.01.01"}

\* the "cantidad numero" typed for an item
CantNums == {1}

\* qty_map: the quantity chosen for each catalog code; code Y is left at 0
QtyMaps == {q \in [CatCodes -> 0..MaxQty] : q["Y"] = 0}

\* [(c, q) for c, q in qty_map.items() if q and float(q) > 0]
positive(qty_map) ==
    The({ SelectSeqIdx([n \in 1..Len(cs) |-> DRow(cs[n], qty_map[cs[n]])],
                       {n \in 1..Len(cs) : qty_map[cs[n]] > 0})
        : cs \in {SetToSeq(CatCodes)} })

ItemCells(datos_df) == [i \in 1..Len(datos_df) |-> datos_df[i].Item]

DetItemCells(detalle_df) == [j \in 1..Len(detalle_df) |-> detalle_df[j].item]

WithinBounds(datos_df, detalle_df) ==
    /\ Len(datos_df) <= MaxItems
    /\ \A j \in 1..Len(detalle_df) : detalle_df[j].cantidad <= MaxCantidad

\* presupuesto_utils.save_presupuesto: both tables written and moved in place
save_presupuesto(datos_df, detalle_df) ==
    /\ WithinBounds(datos_df, detalle_df)
    /\ exists' = TRUE
    /\ datos' = datos_to_csv(datos_df)
    /\ detalle' = detalle_to_csv(detalle_df)

Raise(name, error) ==
    /\ op' = [name |-> name]
    /\ out' = error
    /\ UNCHANGED <<exists, datos, detalle, inp>>

Init ==
    /\ exists = FALSE
    /\ datos = <<>>
    /\ detalle = <<>>
    /\ inp = [moneda |-> "CLP"]
    /\ op = NoOp
    /\ out = ""

\* presupuesto_nuevo._attempt_save: Partida and Fecha are validated, then the
\* row of item 01.01 and the positive quantities are written
AttemptSave ==
    \E valid \in BOOLEAN, qty_map \in QtyMaps, cant_num \in CantNums :
        IF ~valid THEN Raise("_attempt_save", "invalid")
        ELSE /\ save_presupuesto(
                    <<[Item |-> StrCell(DEFAULT_ITEM), cant |-> cant_num]>>,
                    [n \in 1..Len(positive(qty_map)) |->
                        [item |-> StrCell(DEFAULT_ITEM),
                         Codigo |-> positive(qty_map)[n].Codigo,
                         cantidad |-> positive(qty_map)[n].cantidad]])
             /\ op' = [name |-> "_attempt_save",
                       args |-> [item |-> DEFAULT_ITEM, qty_map |-> qty_map]]
             /\ out' = "ok"
             /\ UNCHANGED inp

\* render_modificar_presupuesto, "Crear item nuevo" / "Guardar cambios"
CreateItem ==
    /\ exists /\ Len(datos) > 0
    /\ \E item_new \in ItemInputs, qty_map \in QtyMaps, cant_num \in CantNums,
          upcast \in BOOLEAN :
       \E df \in {load_presupuesto} :
          IF ~upcast /\ incompatible_setitem(ItemCells(df.datos),
                            {i \in 1..Len(df.datos) : df.datos[i].Item.v = item_new})
          THEN Raise("create_item", "TypeError")
          ELSE /\ save_presupuesto(
                      _sort_datos_by_item(_upsert_item(df.datos, item_new, cant_num)),
                      _sort_detalle_by_item(
                          replace_detail(df.detalle, item_new, positive(qty_map))))
               /\ op' = [name |-> "create_item",
                         args |-> [item |-> item_new, qty_map |-> qty_map]]
               /\ out' = "ok"
               /\ UNCHANGED inp

\* render_modificar_presupuesto, "Guardar cambios del item": the fields of the
\* selected item are saved and the item is renamed when its code was changed
SaveItem ==
    /\ exists /\ Len(datos) > 0
    /\ \E df \in {load_presupuesto} :
       \E sel \in 1..Len(df.datos), cant_num \in CantNums, upcast \in BOOLEAN :
       \E old_item \in {df.datos[sel].Item.v} :
       \E new_item \in ItemInputs \cup {old_item} :
          IF ~upcast
             /\ \/ incompatible_setitem(ItemCells(df.datos),
                      {i \in 1..Len(df.datos) : df.datos[i].Item.v = new_item})
                \/ /\ new_item # old_item
                   /\ incompatible_setitem(DetItemCells(df.detalle),
                        {j \in 1..Len(df.detalle) : df.detalle[j].item.v = old_item})
          THEN Raise("save_item", "TypeError")
          ELSE \E r \in {_rename_item_and_consolidate(df.datos, df.detalle,
                                                      old_item, new_item, cant_num)} :
               /\ save_presupuesto(r.datos, r.detalle)
               /\ op' = [name |-> "save_item",
                         args |-> [sel |-> sel, old_item |-> old_item,
                                   new_item |-> new_item, cant_num |-> cant_num]]
               /\ out' = "ok"
               /\ UNCHANGED inp

\* render_modificar_presupuesto, "Guardar cambios" of the detail of the active
\* item: datos is written back as it was loaded
SaveDetail ==
    /\ exists /\ Len(datos) > 0
    /\ \E df \in {load_presupuesto} :
       \E sel \in 1..Len(df.datos), qty_map \in QtyMaps :
          /\ save_presupuesto(
                 df.datos,
                 _sort_detalle_by_item(
                     replace_detail(df.detalle, df.datos[sel].Item.v, positive(qty_map))))
          /\ op' = [name |-> "save_detail",
                    args |-> [sel |-> sel, item |-> df.datos[sel].Item.v,
                              qty_map |-> qty_map]]
          /\ out' = "ok"
          /\ UNCHANGED inp

\* render_modificar_presupuesto._confirm_delete_item
ConfirmDeleteItem ==
    /\ exists /\ Len(datos) > 0
    /\ \E df \in {load_presupuesto} :
       \E sel \in 1..Len(df.datos) :
       \E r \in {_delete_item(df.datos, df.detalle, df.datos[sel].Item.v)} :
          /\ save_presupuesto(r.datos, r.detalle)
          /\ op' = [name |-> "delete_item",
                    args |-> [sel |-> sel, item |-> df.datos[sel].Item.v]]
          /\ out' = "ok"
          /\ UNCHANGED inp

\* render_modificar_presupuesto._confirm_delete_project: offered when the
\* project has no items; the folder is removed
ConfirmDeleteProject ==
    /\ exists /\ Len(datos) = 0
    /\ exists' = FALSE
    /\ datos' = <<>>
    /\ detalle' = <<>>
    /\ op' = [name |-> "delete_project"]
    /\ out' = "ok"
    /\ UNCHANGED inp

Next ==
    \/ AttemptSave
    \/ CreateItem
    \/ SaveItem
    \/ SaveDetail
    \/ ConfirmDeleteItem
    \/ ConfirmDeleteProject

Spec == Init /\ [][Next]_vars

\* ------------------------------------------------ the preview of a new project
\* Under SpecPreview inp is the session of the "Presupuesto nuevo" screen:
\* qty_map (a code that is not a key counts as 0) and the preview table, a
\* function from the codes shown to the quantity shown.
\* presupuesto_nuevo._build_preview: the catalog rows whose quantity is > 0
_build_preview(qty_map) ==
    [c \in {d \in CatCodes : qty_map[d] > 0} |-> qty_map[c]]

\* the loop "qty_map[r["Codigo"]] = float(r["cantidad"])" over the rows of the
\* edited preview; a code without a row keeps its entry
sync_preview(qty_map, edited_preview) ==
    [c \in DOMAIN qty_map |->
        IF c \in DOMAIN edited_preview THEN edited_preview[c] ELSE qty_map[c]]

InitPreview ==
    /\ exists = FALSE
    /\ datos = <<>>
    /\ detalle = <<>>
    /\ inp = [qty_map |-> [c \in CatCodes |-> 0], preview |-> [c \in {} |-> 0]]
    /\ op = NoOp
    /\ out = ""

\* "Aplicar seleccion": the quantities typed in the catalog rows in view go
\* into qty_map and the preview is built again
ApplySelection ==
    \E view \in SUBSET CatCodes \ {{}} :
    \E edited \in [view -> 0..MaxQty] :
    \E qty_map \in {sync_preview(inp.qty_map, edited)} :
        /\ inp' = [qty_map |-> qty_map, preview |-> _build_preview(qty_map)]
        /\ op' = [name |-> "apply_selection"]
        /\ out' = "ok"
        /\ UNCHANGED <<exists, datos, detalle>>

\* a quantity of a row of the preview is changed; the run that follows
\* copies the rows of the edited preview into qty_map and keeps the table
EditPreview ==
    \E c \in DOMAIN inp.preview, q \in 0..MaxQty :
    \E edited_preview \in {[inp.preview EXCEPT ![c] = q]} :
        /\ q # inp.preview[c]
        /\ inp' = [qty_map |-> sync_preview(inp.qty_map, edited_preview),
                   preview |-> edited_preview]
        /\ op' = [name |-> "edit_preview"]
        /\ out' = "ok"
        /\ UNCHANGED <<exists, datos, detalle>>

\* a row of the preview is removed (num_rows="dynamic"); the run that follows
\* copies the rows that are left into qty_map and keeps the table
RemovePreviewRow ==
    \E c \in DOMAIN inp.preview :
    \E edited_preview \in {[d \in DOMAIN inp.preview \ {c} |-> inp.preview[d]]} :
        /\ inp' = [qty_map |-> sync_preview(inp.qty_map, edited_preview),
                   preview |-> edited_preview]
        /\ op' = [name |-> "remove_preview_row"]
        /\ out' = "ok"
        /\ UNCHANGED <<exists, datos, detalle>>

\* what the Partida and Fecha fields of the screen may hold
Partidas == {"", " ", "Obra"}

Fechas == {"", "01/01/2026"}

\* mutant: only the Partida is validated
valid_partida_only(partida, fecha) == strip(partida) # ""

\* _attempt_save goes on to write when the stripped Partida and Fecha are
\* both non-empty
attempt_save_valid(partida, fecha) == strip(partida) # "" /\ strip(fecha) # ""

\* "Guardar presupuesto": _attempt_save returns False on a blank Partida or
\* Fecha, else writes the row of item 01.01 and the positive entries of
\* qty_map and returns True
GuardarPresupuesto ==
    \E partida \in Partidas, fecha \in Fechas :
        /\ op' = [name |-> "guardar_presupuesto",
                  args |-> [partida |-> partida, fecha |-> fecha]]
        /\ UNCHANGED inp
        /\ IF ~attempt_save_valid(partida, fecha)
           THEN /\ out' = "False"
                /\ UNCHANGED <<exists, datos, detalle>>
           ELSE /\ save_presupuesto(
                       <<[Item |-> StrCell(DEFAULT_ITEM), cant |-> 1]>>,
                       [n \in 1..Len(positive(inp.qty_map)) |->
                           [item |-> StrCell(DEFAULT_ITEM),
                            Codigo |-> positive(inp.qty_map)[n].Codigo,
                            cantidad |-> positive(inp.qty_map)[n].cantidad]])
                /\ out' = "True"

NextPreview ==
    \/ ApplySelection
    \/ EditPreview
    \/ RemovePreviewRow
    \/ GuardarPresupuesto

SpecPreview == InitPreview /\ [][NextPreview]_vars

\* ------------------------------------------------ sorting the item table
\* the longest item table handed to the sort
MaxSortLen == 3

\* item codes as they may be typed: plain dotted codes, a code with a letter
\* after its last segment, and segments of six and seven digits
SortCodes == {"1", "10", "2.01", "2.01b", "2.02", "333333", "1000000"}

SortLists == UNION {[1..n -> SortCodes] : n \in 0..MaxSortLen}

InitSort ==
    /\ exists = FALSE
    /\ datos = <<>>
    /\ detalle = <<>>
    /\ inp \in SortLists
    /\ op = [name |-> "init"]
    /\ out = <<>>

\* _sort_datos_by_item on a table whose Item column holds the codes of inp
SortDatosByItem ==
    /\ op.name = "init"
    /\ out' = ItemCol(datos_to_csv(_sort_datos_by_item(
                  [i \in 1..Len(inp) |-> [Item |-> StrCell(inp[i]), cant |-> 1]])))
    /\ op' = [name |-> "_sort_datos_by_item"]
    /\ UNCHANGED <<exists, datos, detalle, inp>>

NextSort == SortDatosByItem

SpecSort == InitSort /\ [][NextSort]_vars

\* ------------------------------------------------ save_presupuesto, step by step
\* Under SpecSave the variables datos and detalle hold the files datos.csv and
\* detalle.csv of the project folder as [present, lines]; out holds the two
\* temporary files, op the position of the running save_presupuesto, and inp
\* the frames being saved together with the files found at its start.
NoFile == [present |-> FALSE, lines |-> <<>>]

File(lines) == [present |-> TRUE, lines |-> lines]

\* the text to_csv(index=False) produces: the header line, then one line a row
datos_csv_text(datos_df) ==
    <<[Item |-> "Item", cant |-> 0]>> \o datos_to_csv(datos_df)

detalle_csv_text(detalle_df) ==
    <<[item |-> "item", Codigo |-> "Codigo", cantidad |-> 0]>> \o detalle_to_csv(detalle_df)

csv_text(name, frames) ==
    IF name = "datos" THEN datos_csv_text(frames.datos) ELSE detalle_csv_text(frames.detalle)

\* mutant: the table is written straight to its final path
direct_path(name) == [name |-> name, tmp |-> FALSE]

\* base / "datos.tmp.csv", base / "detalle.tmp.csv"
tmp_path(name) == [name |-> name, tmp |-> TRUE]

\* base / "datos.csv", base / "detalle.csv"
csv_path(name) == [name |-> name, tmp |-> FALSE]

read_file(path) ==
    IF path.tmp THEN out[path.name]
    ELSE IF path.name = "datos" THEN datos ELSE detalle

\* the folder after the files in DOMAIN upd were given the contents upd
fs_update(upd) ==
    LET now(path) == IF path \in DOMAIN upd THEN upd[path] ELSE read_file(path)
    IN  /\ datos' = now(csv_path("datos"))
        /\ detalle' = now(csv_path("detalle"))
        /\ out' = [datos |-> now([name |-> "datos", tmp |-> TRUE]),
                   detalle |-> now([name |-> "detalle", tmp |-> TRUE])]

\* the frames a caller hands to save_presupuesto
SaveFrames ==
    LET r(it) == [Item |-> StrCell(it), cant |-> 1]
        d(it, c, q) == [item |-> StrCell(it), Codigo |-> c, cantidad |-> q]
    IN  { [datos |-> <<r("1.01")>>, detalle |-> <<>>],
          [datos |-> <<r("1.01")>>, detalle |-> <<d("1.01", "X", 1), d("1.01", "Y", 1)>>],
          [datos |-> <<r("1.01"), r("1.02")>>, detalle |-> <<d("1.02", "X", 1)>>] }

\* the two tables as an earlier save left them, or no table yet
SavedFolders ==
    {[datos |-> NoFile, detalle |-> NoFile]}
        \cup {[datos |-> File(datos_csv_text(f.datos)),
               detalle |-> File(detalle_csv_text(f.detalle))] : f \in SaveFrames}

\* temporary files: none, or what an interrupted earlier save left behind
Leftovers ==
    { [datos |-> NoFile, detalle |-> NoFile],
      [datos |-> File(<<[Item |-> "Item", cant |-> 0]>>), detalle |-> NoFile] }

InitSave ==
    \E old \in SavedFolders, new \in SaveFrames :
        /\ exists = old.datos.present
        /\ datos = old.datos
        /\ detalle = old.detalle
        /\ inp = [old |-> old, new |-> new]
        /\ op = [name |-> "save_presupuesto", pc |-> "mkdir"]
        /\ out \in {l \in Leftovers : old.datos.present \/ l = [datos |-> NoFile, detalle |-> NoFile]}

\* base.mkdir(parents=True, exist_ok=True)
SaveMkdir ==
    /\ op.pc = "mkdir"
    /\ exists' = TRUE
    /\ op' = [op EXCEPT !.pc = "open_datos"]
    /\ UNCHANGED <<datos, detalle, inp, out>>

\* to_csv opens its path for writing: the file is created or truncated
ToCsvOpen ==
    \E name \in {"datos", "detalle"} :
        /\ op.pc = "open_" \o name
        /\ fs_update(tmp_path(name) :> File(<<>>))
        /\ op' = [op EXCEPT !.pc = "write_" \o name]
        /\ UNCHANGED <<exists, inp>>

\* to_csv writes the text; a step writes one more line of it
ToCsvWrite ==
    \E name \in {"datos", "detalle"} :
        /\ op.pc = "write_" \o name
        /\ \E text \in {csv_text(name, inp.new)}, f \in {read_file(tmp_path(name))} :
              IF Len(f.lines) < Len(text)
              THEN /\ fs_update(tmp_path(name) :> File(Append(f.lines, text[Len(f.lines) + 1])))
                   /\ UNCHANGED op
              ELSE /\ op' = [op EXCEPT !.pc = IF name = "datos" THEN "open_detalle"
                                                ELSE "replace_datos"]
                   /\ UNCHANGED <<datos, detalle, out>>
        /\ UNCHANGED <<exists, inp>>

\* Path.replace: the temporary file takes the place of the table in one step
Replace ==
    \E name \in {"datos", "detalle"} :
        /\ op.pc = "replace_" \o name
        /\ fs_update((tmp_path(name) :> NoFile)
                        @@ (csv_path(name) :> read_file(tmp_path(name))))
        /\ op' = [op EXCEPT !.pc = IF name = "datos" THEN "replace_detalle" ELSE "done"]
        /\ UNCHANGED <<exists, inp>>

\* the process is killed between two steps of save_presupuesto
Crash ==
    /\ op.pc \notin {"done", "crashed"}
    /\ op' = [op EXCEPT !.pc = "crashed"]
    /\ UNCHANGED <<exists, datos, detalle, inp, out>>

NextSave ==
    \/ SaveMkdir
    \/ ToCsvOpen
    \/ ToCsvWrite
    \/ Replace
    \/ Crash

SpecSave == InitSave /\ [][NextSave]_vars

\* ------------------------------------------------ the output files of a project
\* states of the project folder between two calls: one item with one or two
\* units of X, an item table left with the code 1.1 twice next to 1.01.01,
\* and a folder with datos.csv only
OutputProjects ==
    { [datos |-> <<[Item |-> DEFAULT_ITEM, cant |-> 1]>>,
       detalle |-> <<[item |-> DEFAULT_ITEM, Codigo |-> "X", cantidad |-> 1]>>,
       detalle_csv |-> TRUE],
      [datos |-> <<[Item |-> DEFAULT_ITEM, cant |-> 1]>>,
       detalle |-> <<[item |-> DEFAULT_ITEM, Codigo |-> "X", cantidad |-> 2]>>,
       detalle_csv |-> TRUE],
      [datos |-> <<[Item |-> "1.1", cant |-> 1], [Item |-> "1.1", cant |-> 1],
                   [Item |-> "1.01.01", cant |-> 1]>>,
       detalle |-> <<[item |-> "1.1", Codigo |-> "X", cantidad |-> 1]>>,
       detalle_csv |-> TRUE],
      [datos |-> <<[Item |-> DEFAULT_ITEM, cant |-> 1]>>,
       detalle |-> <<>>,
       detalle_csv |-> FALSE] }

InitOutput ==
    /\ exists = TRUE
    /\ \E p \in OutputProjects :
          /\ datos = p.datos
          /\ detalle = p.detalle
          /\ inp = [moneda |-> "CLP", datos_csv |-> TRUE, detalle_csv |-> p.detalle_csv]
    /\ op = NoOp
    /\ out = [xlsx |-> NoFile, pdf |-> NoFile]

\* the project is edited between two calls
ProjectChanges ==
    /\ \E p \in OutputProjects :
          /\ <<p.datos, p.detalle, p.detalle_csv>> # <<datos, detalle, inp.detalle_csv>>
          /\ datos' = p.datos
          /\ detalle' = p.detalle
          /\ inp' = [inp EXCEPT !.detalle_csv = p.detalle_csv]
    /\ op' = [name |-> "save_presupuesto"]
    /\ UNCHANGED <<exists, out>>

\* obtener_o_generar_*: the path of a file that is there unless reescribir,
\* else what the generator does: it raises, or writes the file and returns
\* its path
obtener_o_generar(name, kind, generated, reescribir) ==
    /\ UNCHANGED <<exists, datos, detalle, inp>>
    /\ IF out[kind].present /\ ~reescribir
       THEN /\ op' = [name |-> name, reescribir |-> reescribir, returned |-> "path"]
            /\ UNCHANGED out
       ELSE IF generated.error # ""
       THEN /\ op' = [name |-> name, reescribir |-> reescribir,
                      returned |-> generated.error]
            /\ UNCHANGED out
       ELSE /\ op' = [name |-> name, reescribir |-> reescribir, returned |-> "path"]
            /\ out' = [out EXCEPT ![kind] = File(generated)]

ObtenerOGenerarExcel ==
    \E reescribir \in BOOLEAN :
        obtener_o_generar("obtener_o_generar_excel", "xlsx", generar_excel, reescribir)

ObtenerOGenerarPdf ==
    \E reescribir \in BOOLEAN :
        obtener_o_generar("obtener_o_generar_pdf", "pdf", generar_pdf_presupuesto,
                          reescribir)

NextOutput ==
    \/ ProjectChanges
    \/ ObtenerOGenerarExcel
    \/ ObtenerOGenerarPdf

SpecOutput == InitOutput /\ [][NextOutput]_vars

\* ------------------------------------------------ the catalog and its categories
\* the most items added to the catalog
MaxCatalog == 3

\* what is typed in the form of a new category
Categorias == {"A", "B"}

Subcategorias == {"S"}

Prefijos == {"MA", "MB"}

\* str(n) of a number below 100
str_int(n) ==
    IF n < 10 THEN Ch("0123456789", n + 1)
    ELSE Ch("0123456789", (n \div 10) + 1) \o Ch("0123456789", (n % 10) + 1)

\* add_item._digits_len_from_next: the length of the digits NextCodigo ends
\* with, fallback_width if it ends with none
_digits_len_from_next(next_code, fallback_width) ==
    LET isd(i) == \E d \in 1..10 : Ch("0123456789", d) = Ch(next_code, i)
        tail == {n \in 1..Len(next_code) :
                    \A i \in (Len(next_code) - n + 1)..Len(next_code) : isd(i)}
    IN  IF tail = {} THEN fallback_width
        ELSE CHOOSE n \in tail : \A m \in tail : m <= n

\* f"{prefijo}{str(num).zfill(width)}"
item_code(prefijo, num, width) == prefijo \o zfill(str_int(num), width)

\* the row of categorias.csv for a category and subcategory, 0 if none
cat_row(df_cat, categoria, subcategoria) ==
    LET hits == {i \in 1..Len(df_cat) :
                    df_cat[i].Categoria = categoria /\ df_cat[i].Subcategoria = subcategoria}
    IN  IF hits = {} THEN 0 ELSE CHOOSE i \in hits : \A j \in hits : i <= j

InitCatalog ==
    /\ exists = FALSE
    /\ datos = <<>>
    /\ detalle = <<>>
    /\ inp = [categorias |-> <<>>, items |-> <<>>]
    /\ op = NoOp
    /\ out = ""

\* render_add_category, "Guardar": a category and subcategory not yet listed
\* get a row with the prefix typed, MaxNumero 0 and NextCodigo prefix + 0001
AddCategory ==
    \E categoria \in Categorias, subcategoria \in Subcategorias, prefijo \in Prefijos :
        /\ op' = [name |-> "add_category", categoria |-> categoria,
                  subcategoria |-> subcategoria, prefijo |-> prefijo]
        /\ UNCHANGED <<exists, datos, detalle>>
        /\ IF cat_row(inp.categorias, categoria, subcategoria) # 0
           THEN /\ out' = "duplicado"
                /\ UNCHANGED inp
           ELSE /\ out' = "ok"
                /\ inp' = [inp EXCEPT !.categorias =
                             Append(@, [Categoria |-> categoria,
                                        Subcategoria |-> subcategoria,
                                        Prefijo |-> prefijo,
                                        MaxNumero |-> 0,
                                        Count |-> 0,
                                        NextCodigo |-> item_code(prefijo, 1, 4)])]

\* render_add_item, "Guardar ítem" with a category and subcategory of
\* categorias.csv selected: the item gets prefix + zero-padded MaxNumero + 1,
\* and the row of the category moves on
AddItem ==
    /\ Len(inp.items) < MaxCatalog
    /\ \E r \in 1..Len(inp.categorias) :
       \E row \in {inp.categorias[r]} :
       \E width \in {_digits_len_from_next(row.NextCodigo,
                        IF Len(str_int(row.MaxNumero)) > 4
                        THEN Len(str_int(row.MaxNumero)) ELSE 4)} :
       \E next_num \in {row.MaxNumero + 1} :
       \E codigo \in {item_code(row.Prefijo, next_num, width)} :
           /\ op' = [name |-> "add_item", codigo |-> codigo]
           /\ out' = "ok"
           /\ inp' = [categorias |->
                         [i \in 1..Len(inp.categorias) |->
                             IF inp.categorias[i].Categoria = row.Categoria
                                /\ inp.categorias[i].Subcategoria = row.Subcategoria
                             THEN [inp.categorias[i] EXCEPT
                                     !.MaxNumero = next_num,
                                     !.Count = @ + 1,
                                     !.NextCodigo = item_code(row.Prefijo, next_num + 1, width)]
                             ELSE inp.categorias[i]],
                      items |-> Append(inp.items, codigo)]
    /\ UNCHANGED <<exists, datos, detalle>>

NextCatalog ==
    \/ AddCategory
    \/ AddItem

SpecCatalog == InitCatalog /\ [][NextCatalog]_vars

\* ------------------------------------------------ the moneda column of datos.csv
\* a cell pandas holds as NaN: to_csv writes it as an empty field
NaNCell == [t |-> "nan", v |-> ""]

\* read_csv of a column that may hold empty fields: they are NaN, and a column
\* of integers with a NaN is float64
read_csv_na(col) ==
    The({ [i \in 1..Len(col) |-> IF col[i] = "" THEN NaNCell ELSE read_cell(col[i], dtype)]
        : dtype \in {The({ IF d = "int64" /\ \E i \in 1..Len(col) : col[i] = ""
                           THEN "float64" ELSE d
                         : d \in {infer_dtype(SelectSeq(col, LAMBDA c : c # ""))} })} })

\* pd.to_numeric(column, errors="coerce"): a numeric column stays; in a column
\* of strings a numeral becomes a float and any other text NaN
to_numeric_coerce(cells) ==
    [i \in 1..Len(cells) |->
        IF cells[i].t # "str" THEN cells[i]
        ELSE IF IsIntStr(cells[i].v) \/ IsFloatStr(cells[i].v)
             THEN [t |-> "num", v |-> repr_float(cells[i].v)]
             ELSE NaNCell]

MonedaCol(rows) == [i \in 1..Len(rows) |-> rows[i].moneda]

\* load_presupuesto with the moneda column: read_csv, then to_numeric
load_presupuesto_moneda ==
    The({ [datos |-> [i \in 1..Len(datos) |->
                        [Item |-> df.datos[i].Item, cant |-> df.datos[i].cant,
                         moneda |-> mon[i]]],
           detalle |-> df.detalle]
        : df \in {load_presupuesto},
          mon \in {to_numeric_coerce(read_csv_na(MonedaCol(datos)))} })

\* save_presupuesto of a table with the moneda column
save_presupuesto_moneda(datos_df, detalle_df) ==
    /\ datos' = [i \in 1..Len(datos_df) |->
                    [Item |-> datos_df[i].Item.v, cant |-> datos_df[i].cant,
                     moneda |-> datos_df[i].moneda.v]]
    /\ detalle' = detalle_to_csv(detalle_df)
    /\ UNCHANGED exists

\* crear_detallado: the currency of the project is the moneda of the row
\* whose Item is 1.01, else of the first row; str(value or "CLP")
moneda_proyecto(rows) ==
    IF Len(rows) = 0 THEN "CLP"
    ELSE The({ The({ IF cell.t = "nan" THEN "nan"
                     ELSE IF cell.t = "num" /\ cell.v \in {"0", "0.0"} THEN "CLP"
                     ELSE cell.v
                   : cell \in {read_csv_na(MonedaCol(rows))[
                                 IF hits = {} THEN 1
                                 ELSE CHOOSE h \in hits : \A g \in hits : h <= g]} })
             : hits \in {{i \in 1..Len(rows) : rows[i].Item = "1.01"}} })

\* the moneda fields found in datos.csv: what the screens write for 1 and 2,
\* and currency codes
MonedaTexts == {"1.0", "2.0", "UF", "CLP"}

\* item tables whose codes are read back as they are written
FieldItems == { <<"1.1">>, <<"1.1", "2.1">>, <<"1.1", "1.01.01">> }

InitFields ==
    /\ exists = TRUE
    /\ \E codes \in FieldItems :
       \E mon \in [1..Len(codes) -> MonedaTexts] :
          /\ datos = [i \in 1..Len(codes) |->
                        [Item |-> codes[i], cant |-> 1, moneda |-> mon[i]]]
          /\ detalle = <<[item |-> codes[1], Codigo |-> "X", cantidad |-> 1]>>
    /\ inp = [moneda |-> "CLP"]
    /\ op = NoOp
    /\ out = ""

\* "Guardar cambios" of the detail of one item: the item table is saved as
\* it was loaded
SaveDetailOfItem ==
    /\ Len(datos) > 0
    /\ \E df \in {load_presupuesto_moneda} :
       \E sel \in 1..Len(df.datos), qty_map \in QtyMaps :
          /\ save_presupuesto_moneda(
                 df.datos,
                 _sort_detalle_by_item(
                     replace_detail(df.detalle, df.datos[sel].Item.v, positive(qty_map))))
          /\ op' = [name |-> "save_detail", args |-> [sel |-> sel]]
          /\ out' = "ok"
          /\ UNCHANGED inp

\* an item is deleted: the rows of the other items are saved
DeleteOneItem ==
    /\ Len(datos) > 0
    /\ \E df \in {load_presupuesto_moneda} :
       \E sel \in 1..Len(df.datos) :
       \E r \in {_delete_item(df.datos, df.detalle, df.datos[sel].Item.v)} :
          /\ save_presupuesto_moneda(r.datos, r.detalle)
          /\ op' = [name |-> "delete_item", args |-> [sel |-> sel]]
          /\ out' = "ok"
          /\ UNCHANGED inp

NextFields ==
    \/ SaveDetailOfItem
    \/ DeleteOneItem

SpecFields == InitFields /\ [][NextFields]_vars

\* ------------------------------------------------------------ claims C1-C3
IsNumericCode(c) == \A i \in 1..Len(split(c)) : IsDigits(split(c)[i])

Front(s) == SubSeq(s, 1, Len(s) - 1)

ParentOf(c) == join(Front(split(c)))

LastSeg(c) == split(c)[Len(split(c))]

Siblings(a, b) == Len(split(a)) = Len(split(b)) /\ Front(split(a)) = Front(split(b))

KeyNonDecreasing(list) ==
    \A i \in 1..Len(list), j \in 1..Len(list) :
        i < j => ~TupleLess(_parse_key(list[j]), _parse_key(list[i]))

NoRepeats(list) == \A i \in 1..Len(list), j \in 1..Len(list) : i # j => list[i] # list[j]

\* C1: the ordering key is hierarchical. For numeric codes a and b, the key
\* of a is below the key of a + "." + b (a parent sorts before everything
\* under it), two siblings are ordered by the integer value of their last
\* segment, and "2.02" sorts before "10". Both _parse_key variants.
C1_KeyIsHierarchical ==
    (op.name \in {"_parse_key", "_parse_key_pdf"}
        /\ IsNumericCode(inp.a) /\ IsNumericCode(inp.b))
    => /\ TupleLess(out.ka, out.kab)
       /\ (Siblings(inp.a, inp.b) /\ IntVal(LastSeg(inp.a)) < IntVal(LastSeg(inp.b)))
            => TupleLess(out.ka, out.kb)
       /\ (inp.a = "2.02" /\ inp.b = "10") => TupleLess(out.ka, out.kb)

\* C1 witness: "2" against "10" and "2.10", where a lexical order would differ
C1_Witness ==
    /\ op.name = "_parse_key"
    /\ inp.a = "2" /\ inp.b = "10"
    /\ out.ka = <<2>> /\ out.kb = <<10>> /\ out.kab = <<2, 10>>

DirectParents(codes) == {ParentOf(c) : c \in {d \in codes : Len(split(d)) >= 2}}

\* C2 (as claimed): _collect_parents returns exactly the codes that are the
\* direct parent (the code minus its last segment) of some input code, each
\* once, sorted by ordering key.
C2_ParentsAreDirectParents ==
    op.name \in {"_collect_parents", "_collect_parents_pdf"}
    => /\ Range(out) = DirectParents(Range(inp.items))
       /\ NoRepeats(out)
       /\ KeyNonDecreasing(out)

DirectChildren(codes, parent) ==
    {c \in codes : startswith(c, parent \o ".")
                   /\ Len(split(c)) = Len(split(parent)) + 1}

\* C3 (as claimed): _children_of_parent returns exactly the items that start
\* with parent + "." and have one more segment than parent, sorted by key.
C3_ChildrenAreDirect ==
    op.name \in {"_children_of_parent", "_children_of_parent_pdf"}
    => /\ Range(out) = DirectChildren(Range(inp.items), inp.a)
       /\ KeyNonDecreasing(out)

\* ------------------------------------------------------------ claims C4-C6, C10
Rollups == {"generar_excel_detallado", "generar_pdf_presupuesto"}

\* a rollup that ran on an existing project whose amounts are not converted
RollupRan == op.name \in Rollups /\ out.error = "" /\ inp.moneda = "CLP"

CatalogPrice(cod) == IF cod \in CatCodes THEN Maestro[cod].Pres ELSE 0

\* sum of quantity x catalog price over the stored detail rows of item c
ItemUnitPrice(c) ==
    SumSeq([j \in 1..Len(detalle) |->
              IF detalle[j].item = c
              THEN detalle[j].cantidad * CatalogPrice(detalle[j].Codigo) ELSE 0])

StoredCodes == Range(ItemCol(datos))

\* C4 (as claimed): the unit price a rollup shows for an item is the sum over
\* all of that item's detail rows of quantity x catalog unit price (0 with no
\* rows, 300 for one row of 3 at 100, 500 with a second row of 2).
C4_UnitPriceIsSumOfRows ==
    RollupRan => \A i \in 1..Len(out.rows) :
                    out.rows[i].punit = ItemUnitPrice(out.rows[i].item)

IsLeaf(c) == DirectChildren(StoredCodes, c) = {}

LeafTotal ==
    SumSeq([i \in 1..Len(datos) |->
              IF IsLeaf(datos[i].Item)
              THEN ItemUnitPrice(datos[i].Item) * datos[i].cant ELSE 0])

\* C5 (as claimed): the grand total of the detailed Excel and of the PDF is the
\* sum of unit price x quantity number over the leaf items, whatever the depth
\* of the codes: every leaf is counted and no item with children is.
C5_GrandTotalIsLeafSum ==
    RollupRan => out.total_presupuesto = LeafTotal

\* the stored project of the end-to-end scenario
C6_Scenario ==
    /\ exists
    /\ inp.moneda = "CLP"
    /\ ItemCol(datos) = <<"1.01", "1.02", "2.01">>
    /\ \A i \in 1..3 : datos[i].cant = 1
    /\ ItemUnitPrice("1.01") = 1000
    /\ ItemUnitPrice("1.02") = 2000
    /\ ItemUnitPrice("2.01") = 3000

TotalUnder(rows, parent) ==
    SumSeq([i \in 1..Len(rows) |-> IF rows[i].parent = parent THEN rows[i].total ELSE 0])

\* C6 (as claimed): for items 1.01, 1.02, 2.01 (quantity 1 each) with unit
\* prices 1000, 2000 and 3000, a rollup finds the parents "1" and "2", lists
\* every child, totals 3000 under "1" and 6000 overall.
C6_EndToEnd ==
    (op.name \in Rollups /\ C6_Scenario)
    => /\ out.parents = <<"1", "2">>
       /\ [i \in 1..Len(out.rows) |-> out.rows[i].item] = <<"1.01", "1.02", "2.01">>
       /\ TotalUnder(out.rows, "1") = 3000
       /\ out.total_presupuesto = 6000

\* the lines of all type blocks of one item of the APU Excel
BlockLines(partida) ==
    Flatten([t \in 1..Len(partida.blocks) |-> partida.blocks[t].lines])

\* quantity x price over the lines whose code the catalog has
MatchedSum(lines) ==
    SumSeq([k \in 1..Len(lines) |->
              IF lines[k].Codigo \in CatCodes
              THEN lines[k].cant * Maestro[lines[k].Codigo].Pres ELSE 0])

\* the detail rows the unit-price aggregation files under key c
RowsKeyed(c) ==
    The({ SelectSeqIdx(detalle, {j \in 1..Len(detalle) : items[j].v = c})
        : items \in {read_csv_col(DetItemCol(detalle))} })

\* both project tables are there and no item code stands twice in datos
TablesRead == datos_csv_exists /\ detalle_csv_exists /\ NoRepeats(ItemCol(datos))

\* C10 (as claimed): in the APU Excel, the detailed Excel and the PDF a detail
\* row whose code the catalog does not have adds 0 to the unit price of its
\* item, no error is raised, and the item's other rows add what they add
\* without it.
C10_UnmatchedCodeAddsZero ==
    /\ (op.name = "generar_excel" /\ TablesRead)
        => /\ out.error = ""
           /\ \A i \in 1..Len(out.partidas) :
                out.partidas[i].precio_unitario = MatchedSum(BlockLines(out.partidas[i]))
    /\ (op.name \in Rollups /\ TablesRead)
        => /\ out.error = ""
           /\ inp.moneda = "CLP" =>
                \A i \in 1..Len(out.rows) :
                    out.rows[i].punit =
                        SumSeq([j \in 1..Len(RowsKeyed(out.rows[i].item)) |->
                            RowsKeyed(out.rows[i].item)[j].cantidad
                            * CatalogPrice(RowsKeyed(out.rows[i].item)[j].Codigo)])

\* ------------------------------------------------------------ claims C7-C9
\* C7 (as claimed): item codes round-trip as exact strings. Saving the detail
\* of an item loads the project with load_presupuesto and writes datos back
\* with save_presupuesto as loaded: the item codes of datos.csv are the same
\* strings afterwards, and detalle.csv carries no item code that datos.csv
\* did not hold ("1.10" never becomes "1.1").
C7_CodesRoundTrip ==
    [][op'.name = "save_detail"
        => /\ ItemCol(datos') = ItemCol(datos)
           /\ Range(DetItemCol(detalle')) \subseteq Range(ItemCol(datos))]_vars

PairCol(rows) == [j \in 1..Len(rows) |-> <<rows[j].item, rows[j].Codigo>>]

\* C8 (as claimed): after any sequence of create budget, create item, save
\* detail, rename and delete, detalle.csv holds at most one row per
\* (item code, catalog code) pair.
C8_OneRowPerItemAndCode == NoRepeats(PairCol(detalle))

\* C9 (as claimed): create-item, rename-item and delete-item keep the item
\* codes of datos.csv unique: from a table without repeated codes each of them
\* writes a table without repeated codes.
C9_ItemCodesStayUnique ==
    [][(op'.name \in {"create_item", "save_item", "delete_item"}
            /\ NoRepeats(ItemCol(datos)))
        => NoRepeats(ItemCol(datos'))]_vars

\* ------------------------------------------------------------ claims C11-C20
\* the rate of the currency is missing or zero
RateUnavailable(codigo) == codigo \notin DOMAIN Monedas \/ Monedas[codigo] = 0

\* C11 (as claimed): converting into a currency whose rate is zero or missing
\* gives an outcome that differs from every valid converted amount (the
\* conversion of any amount into any currency with a rate), so the caller can
\* tell "unavailable" apart.
C11_UnavailableIsDistinguishable ==
    (op.name = "convert_clp_to" /\ RateUnavailable(inp.moneda_destino))
    => \A m \in Montos, c \in MonedaCodes :
          ~RateUnavailable(c) => out # convert_clp_to(m, c)

RowsOfItem(det, codes) == {j \in 1..Len(det) : det[j].item \in codes}

\* C13 (as claimed): after the detail of an item is saved (save detail, create
\* item, first save of a new project), the persisted detail table has a row
\* for (that item, catalog code) only if the quantity chosen for the code is
\* greater than 0, and a row the item had on disk for a code whose quantity is
\* now 0 is gone, under the code it was stored with and under the code it was
\* loaded as.
C13_RowsOnlyForPositiveQty ==
    [][(op'.name \in {"save_detail", "create_item", "_attempt_save"} /\ out' = "ok")
        => LET q == op'.args.qty_map
               item == op'.args.item
               stored == IF op'.name = "save_detail"
                         THEN {datos[op'.args.sel].Item} ELSE {item}
               was == {j \in RowsOfItem(detalle, stored) : q[detalle[j].Codigo] = 0}
           IN  /\ \A j \in RowsOfItem(detalle', stored \cup {item}) :
                     q[detalle'[j].Codigo] > 0
               /\ \A j \in was :
                     ~\E k \in RowsOfItem(detalle',
                               {detalle[j].item, load_presupuesto.detalle[j].item.v}) :
                          detalle'[k].Codigo = detalle[j].Codigo]_vars

Generators == {"generar_excel", "generar_excel_detallado", "generar_pdf_presupuesto"}

\* C14 (as claimed): a report generator aborts exactly when datos.csv or
\* detalle.csv is missing, and then with FileNotFoundError and nothing
\* generated; with both tables there it never aborts, whatever the codes, the
\* catalog matches and the currency of the project.
C14_AbortsExactlyWhenTableMissing ==
    op.name \in Generators
    => IF datos_csv_exists /\ detalle_csv_exists
       THEN out.error = ""
       ELSE out = [error |-> "FileNotFoundError"]

\* the items are codes of one or two segments
AtMostTwoSegments(items) == \A c \in Range(items) : Len(split(c)) \in {1, 2}

C16_ParseKeyTotal ==
    op.name \in {"_parse_key", "_parse_key_pdf"}
    => \A code \in {inp.a, inp.b} :
         \E key \in {IF code = inp.a THEN out.ka ELSE out.kb} :
            /\ Len(key) = Len(split(code))
            /\ \A i \in 1..Len(key) :
                  /\ key[i] \in Nat
                  /\ ~IsDigits(split(code)[i]) => key[i] = 0
            /\ code = "abc.3" => key = <<0, 3>>

\* C17 (as claimed): _parse_key (both variants) of the empty string is the
\* empty tuple, and of a code of one segment such as "2" the tuple (2,).
C17_EmptyAndSingleSegment ==
    op.name \in {"_parse_key", "_parse_key_pdf"}
    => /\ inp.a = "" => out.ka = <<>>
       /\ inp.a = "2" => out.ka = <<2>>
       /\ inp.a = "10" => out.ka = <<10>>

\* the detail rows whose price the aggregation takes as 0: no catalog match
ZeroedRows == {j \in 1..Len(detalle) : detalle[j].Codigo \notin CatCodes}

\* C18 (as claimed): when the unit-price aggregation of a rollup takes the
\* price of an unmatched catalog code as 0, its caller is told: what the
\* aggregation hands back differs from what it hands back for the same detail
\* table without the zeroed rows (it returns the prices and nothing else).
C18_ZeroingIsFlagged ==
    (op.name \in Rollups /\ out.error = "" /\ ZeroedRows # {})
    => _compute_precio_unitario_por_item(detalle)
          # _compute_precio_unitario_por_item(
                SelectSeqIdx(detalle, (1..Len(detalle)) \ ZeroedRows))

\* the quantity the detail table det records for (item code, catalog code)
QtyOf(det, item, codigo) ==
    SumSeq([j \in 1..Len(det) |->
              IF det[j].item = item /\ det[j].Codigo = codigo THEN det[j].cantidad ELSE 0])

\* C19 (as claimed): after an item is renamed from old to a different code
\* new, no row of datos or detalle carries old, datos has exactly one row for
\* new and it holds the supplied quantity number, and for every catalog code
\* the quantity recorded for new is what was recorded for old plus what was
\* recorded for new.
C19_RenameConservesQuantities ==
    [][(op'.name = "save_item" /\ out' = "ok"
            /\ op'.args.new_item # datos[op'.args.sel].Item)
        => LET old == datos[op'.args.sel].Item
               new == op'.args.new_item
           IN  /\ old \notin Range(ItemCol(datos')) \cup Range(DetItemCol(detalle'))
               /\ Cardinality({i \in 1..Len(datos') : datos'[i].Item = new}) = 1
               /\ \A i \in 1..Len(datos') :
                     datos'[i].Item = new => datos'[i].cant = op'.args.cant_num
               /\ \A c \in DetCodes :
                     QtyOf(detalle', new, c)
                        = QtyOf(detalle, old, c) + QtyOf(detalle, new, c)]_vars

\* C20 (as claimed): referential integrity of the persisted tables. Create
\* item, save detail, rename item and delete item keep every row of
\* detalle.csv on an item code that some row of datos.csv carries.
C20_NoOrphanDetailRows ==
    [][(op'.name \in {"create_item", "save_detail", "save_item", "delete_item"}
            /\ out' = "ok"
            /\ Range(DetItemCol(detalle)) \subseteq Range(ItemCol(datos)))
        => Range(DetItemCol(detalle')) \subseteq Range(ItemCol(datos'))]_vars

\* ------------------------------------------------------------ claims C21-C30
\* C21 (as claimed): whenever save_presupuesto stops, at a crash or at its
\* end, the pair (datos.csv, detalle.csv) is the complete pair found at its
\* start or the complete new pair, never the new item table next to the old
\* detail table.
C21_PairOldOrNew ==
    op.pc \in {"crashed", "done"}
    => \/ (datos = inp.old.datos /\ detalle = inp.old.detalle)
       \/ (datos = File(datos_csv_text(inp.new.datos))
            /\ detalle = File(detalle_csv_text(inp.new.detalle)))

\* the detail rows stored for the item of row i of datos.csv
StoredRowsOf(i) == {j \in 1..Len(detalle) : detalle[j].item = datos[i].Item}

\* C22 (as claimed): in the APU Excel, for every item, Precio Unitario is the
\* sum of the subtotals of the type blocks written for it, every detail row
\* of the item stands in exactly one block, and TOTAL PARTIDA is Precio
\* Unitario times the item's cantidad numero.
C22_ApuTotals ==
    (op.name = "generar_excel" /\ out.error = "")
    => \A i \in 1..Len(out.partidas) :
         \E lines \in {BlockLines(out.partidas[i])} :
            /\ out.partidas[i].precio_unitario
                  = FSum([t \in 1..Len(out.partidas[i].blocks) |->
                            out.partidas[i].blocks[t].subtotal])
            /\ out.partidas[i].total_partida
                  = out.partidas[i].precio_unitario * datos[i].cant
            /\ Len(lines) = Cardinality(StoredRowsOf(i))
            /\ \A j \in StoredRowsOf(i) :
                  Cardinality({k \in 1..Len(lines) :
                                  /\ lines[k].Codigo = detalle[j].Codigo
                                  /\ lines[k].cant = detalle[j].cantidad}) = 1

\* C23 (as claimed): for every item the Precio Unitario of the APU Excel
\* equals the unit price _compute_precio_unitario_por_item derives for that
\* item from the same detail and catalog tables.
C23_AxesAgreeOnUnitPrice ==
    (op.name = "generar_excel" /\ out.error = "")
    => \E precios_item \in {_compute_precio_unitario_por_item(detalle)} :
          \A i \in 1..Len(out.partidas) :
              out.partidas[i].precio_unitario = dict_get(precios_item, datos[i].Item)

C25_SavedIsPreview ==
    (op.name = "guardar_presupuesto" /\ out = "True")
    => {<<detalle[j].Codigo, detalle[j].cantidad>> : j \in 1..Len(detalle)}
          = {<<c, inp.preview[c]>> : c \in {d \in DOMAIN inp.preview : inp.preview[d] > 0}}

\* the field holds nothing but blanks
Blank(field) == \A i \in 1..Len(field) : Ch(field, i) = " "

C27_SortedByParseKey ==
    op.name = "_sort_datos_by_item" => KeyNonDecreasing(out)

\* C28: a call of obtener_o_generar_excel or obtener_o_generar_pdf on a
\* project with both tables. If the output file is there and reescribir is
\* False, the path is returned and the file is as it was; in every other case
\* the path is returned and the file holds what the generator makes of the
\* current project data.
C28_ReuseOrRegenerate ==
    [][(op'.name \in {"obtener_o_generar_excel", "obtener_o_generar_pdf"}
            /\ datos_csv_exists /\ detalle_csv_exists)
        => /\ op'.returned = "path"
           /\ \A kind \in {"xlsx", "pdf"} :
                 IF kind = (IF op'.name = "obtener_o_generar_excel" THEN "xlsx" ELSE "pdf")
                       /\ ~(out[kind].present /\ ~op'.reescribir)
                 THEN out'[kind] = File(IF kind = "xlsx" THEN generar_excel
                                        ELSE generar_pdf_presupuesto)
                 ELSE out'[kind] = out[kind]]_vars

Untouched(name, sel) ==
    {datos[i] : i \in {j \in 1..Len(datos) : name = "save_detail" \/ j # sel}}

\* C30: an item edit keeps the stored fields of the untouched item rows:
\* after load_presupuesto, the edit and the save, datos.csv holds exactly
\* these rows with the Item, the quantity and the moneda they had, and the
\* currency the detailed report reads for the project is the one it read
\* before (when the row it reads is still there).
C30_UntouchedRowsKeepFields ==
    [][op'.name \in {"save_detail", "delete_item"}
        => /\ Range(datos') = Untouched(op'.name, op'.args.sel)
           /\ (op'.name = "save_detail"
                 => moneda_proyecto(datos') = moneda_proyecto(datos))]_vars

====
